---------------------------- MODULE Spec2Model ----------------------------
(***************************************************************************)
(* State-machine model of ripple/sign.py: seed -> root key -> signing hash *)
(* -> DER signature, and public key -> account identifier.                 *)
(*                                                                         *)
(* Scaling.  TLC integers are 32 bits wide, so the 256-bit curve is        *)
(* replaced by a 16-bit curve of the same shape: y^2 = x^3 + 7 over F_p    *)
(* with p = 33343, prime group order 33151 < p, both exactly 16 bits long  *)
(* (secp256k1: order < p, both exactly 256 bits long).  The truncated hash *)
(* is 16 bits wide where the code's is 256 bits wide, so a digest may      *)
(* exceed, equal or stay below the curve order exactly as in the code.     *)
(* Byte strings (Python 2 str) are sequences of numbers in 0..255.         *)
(***************************************************************************)
EXTENDS Integers, Sequences, FiniteSets, TLC

(***************************************************************************)
(* Curve parameters (curves.SECP256k1, scaled).                            *)
(***************************************************************************)
CurveP == 33343

CurveB == 7

CurveOrder == 33151

GeneratorX == 1

GeneratorY == 15860

\* hash.digest()[:256/8]: width in bits of the truncated digest (scaled)
HashBits == 16

\* Python's None for integer-valued locals and for byte strings / fields
None == 0 - 1

NoBytes == << >>

(***************************************************************************)
(* Bounds of the model.                                                    *)
(***************************************************************************)
\* rounds a rejection-sampling loop may take before the model stops following it
MaxRounds == 2

(***************************************************************************)
(* Primitive codec (module serialize).                                     *)
(***************************************************************************)
RECURSIVE bit_length(_)
bit_length(v) == IF v = 0 THEN 0 ELSE 1 + bit_length(v \div 2)

RECURSIVE MinimalBytes(_)
\* '%x' % number, left-padded to an even number of digits, unhexlified
MinimalBytes(v) ==
    IF v < 256 THEN << v >> ELSE Append(MinimalBytes(v \div 256), v % 256)

RECURSIVE ZeroFill(_, _)
ZeroFill(bytes, length) ==
    IF Len(bytes) >= length THEN bytes ELSE ZeroFill(<< 0 >> \o bytes, length)

\* to_bytes raises when the number does not fit the requested width
to_bytes_overflows(number, length) ==
    length # None /\ length # 0 /\ Len(MinimalBytes(number)) > length

\* to_bytes(number, length): big-endian, fixed width when a length is given
to_bytes(number, length) ==
    IF length = None \/ length = 0
    THEN MinimalBytes(number)
    ELSE ZeroFill(MinimalBytes(number), length)

RECURSIVE from_bytes(_)
\* from_bytes(bytes): the big-endian unsigned integer of a byte string
from_bytes(bytes) ==
    IF Len(bytes) = 0 THEN 0
    ELSE from_bytes(SubSeq(bytes, 1, Len(bytes) - 1)) * 256 + bytes[Len(bytes)]

\* ASCII code of the upper-case hex digit of v in 0..15
HexDigit(v) == IF v < 10 THEN 48 + v ELSE 55 + v

RECURSIVE fmt_hex(_)
\* fmt_hex(bytes): upper-case hex rendering, two characters per byte
fmt_hex(bytes) ==
    IF Len(bytes) = 0 THEN << >>
    ELSE << HexDigit(Head(bytes) \div 16), HexDigit(Head(bytes) % 16) >>
         \o fmt_hex(Tail(bytes))

(***************************************************************************)
(* Curve arithmetic (ecdsa.ellipticcurve.Point, ecdsa.numbertheory).       *)
(***************************************************************************)
INFINITY == [inf |-> TRUE, x |-> 0, y |-> 0]

Point(px, py) == [inf |-> FALSE, x |-> px, y |-> py]

Generator == Point(GeneratorX, GeneratorY)

RECURSIVE EGcd(_, _, _, _)
\* extended Euclid: the coefficient of a in gcd(a, m), a invertible mod m
EGcd(r0, r1, s0, s1) ==
    IF r1 = 0 THEN s0
    ELSE EGcd(r1, r0 % r1, s1, s0 - (r0 \div r1) * s1)

inverse_mod(a, m) == EGcd(a % m, m, 1, 0) % m

PointDouble(P) ==
    IF P.inf \/ P.y = 0 THEN INFINITY
    ELSE LET l == ((((3 * ((P.x * P.x) % CurveP)) % CurveP)
                    * inverse_mod(2 * P.y, CurveP)) % CurveP)
             x3 == (l * l - 2 * P.x) % CurveP
             y3 == (l * ((P.x - x3) % CurveP) - P.y) % CurveP
         IN  Point(x3, y3)

PointAdd(P, Q) ==
    IF P.inf THEN Q
    ELSE IF Q.inf THEN P
    ELSE IF P.x = Q.x
         THEN IF (P.y + Q.y) % CurveP = 0 THEN INFINITY ELSE PointDouble(P)
         ELSE LET l == (((Q.y - P.y) % CurveP)
                        * inverse_mod(Q.x - P.x, CurveP)) % CurveP
                  x3 == (l * l - P.x - Q.x) % CurveP
                  y3 == (l * ((P.x - x3) % CurveP) - P.y) % CurveP
              IN  Point(x3, y3)

RECURSIVE MulRec(_, _)
MulRec(P, e) ==
    IF e = 0 THEN INFINITY
    ELSE IF e = 1 THEN P
    ELSE LET d == PointDouble(MulRec(P, e \div 2))
         IN  IF e % 2 = 1 THEN PointAdd(d, P) ELSE d

\* Point.__mul__: the scalar is reduced modulo the order of the point
PointMul(P, k) == MulRec(P, k % CurveOrder)

OnCurve(P) ==
    /\ ~P.inf
    /\ (P.y * P.y) % CurveP
         = (((((P.x * P.x) % CurveP) * P.x) % CurveP) + CurveB) % CurveP

(***************************************************************************)
(* Results of calls that may raise: err = "" on a normal return.           *)
(***************************************************************************)
Ok(v) == [err |-> "", val |-> v]

Raise(e) == [err |-> e, val |-> NoBytes]

(***************************************************************************)
(* ecc_point_to_bytes_compressed(point, pad)                               *)
(***************************************************************************)
\* curves.SECP256k1.order.bit_length()/8 if pad else None
CompressedWidth(pad) == IF pad THEN bit_length(CurveOrder) \div 8 ELSE None

\* variant: the pad flag is ignored, x is always encoded at minimal width
ecc_point_to_bytes_compressed_unpadded(point, pad) ==
    IF point.inf
    THEN Raise("TypeError")
    ELSE Ok(<< IF point.y % 2 = 0 THEN 2 ELSE 3 >> \o to_bytes(point.x, None))

ecc_point_to_bytes_compressed(point, pad) ==
    IF point.inf
    THEN Raise("TypeError")       \* INFINITY.y() is None: None % 2
    ELSE IF to_bytes_overflows(point.x, CompressedWidth(pad))
    THEN Raise("ValueError")
    ELSE Ok(<< IF point.y % 2 = 0 THEN 2 ELSE 3 >>
            \o to_bytes(point.x, CompressedWidth(pad)))

(***************************************************************************)
(* Seed decoding.  RippleBaseDecoder.decode is the collaborator of         *)
(* section 6: it rejects a string whose trailing check character is wrong  *)
(* and returns the payload between version character and check character.  *)
(***************************************************************************)
RECURSIVE SumSeq(_)
SumSeq(q) == IF Len(q) = 0 THEN 0 ELSE Head(q) + SumSeq(Tail(q))

CheckChar(q) == 48 + (SumSeq(q) % 10)

DecoderRejects(str) ==
    \/ Len(str) < 3
    \/ str[Len(str)] # CheckChar(SubSeq(str, 1, Len(str) - 1))

RippleBaseDecoder_decode(str) ==
    IF DecoderRejects(str) THEN Raise("DecodeError")
    ELSE Ok(SubSeq(str, 2, Len(str) - 1))

\* variant: the indicator character is not checked
parse_seed_unchecked(str) ==
    IF Len(str) = 0 THEN Raise("IndexError")
    ELSE RippleBaseDecoder_decode(str)

\* assert secret[0] == 's'; return RippleBaseDecoder.decode(secret)
parse_seed(str) ==
    IF Len(str) = 0 THEN Raise("IndexError")
    ELSE IF str[1] # 115 THEN Raise("AssertionError")
    ELSE RippleBaseDecoder_decode(str)

(***************************************************************************)
(* Transactions: maps from field name to byte string, Absent when the      *)
(* field is not in the map.                                                *)
(***************************************************************************)
Fields == {"Account", "SigningPubKey", "TxnSignature"}

Absent == << >>

\* canonical field order and field codes of the serializer
FieldOrder == << "SigningPubKey", "TxnSignature", "Account" >>

FieldCode(f) ==
    IF f = "SigningPubKey" THEN 115 ELSE IF f = "TxnSignature" THEN 116 ELSE 129

\* the serializer rejects a transaction that lacks a required field
SerializeFails(t) == t["Account"] = Absent

RECURSIVE SerializeFrom(_, _)
SerializeFrom(t, n) ==
    IF n > Len(FieldOrder) THEN << >>
    ELSE (IF t[FieldOrder[n]] = Absent THEN << >>
          ELSE << FieldCode(FieldOrder[n]), Len(t[FieldOrder[n]]) >>
               \o t[FieldOrder[n]])
         \o SerializeFrom(t, n + 1)

serialize_object(t) == SerializeFrom(t, 1)

(***************************************************************************)
(* Hashing.  SHA-512 is an arbitrary function of its input: every call on  *)
(* a new input may return any digest.  The calls of one run all have       *)
(* different inputs (the counter is part of the input).                    *)
(***************************************************************************)
DigestBytes == HashBits \div 8

DigestSamples == {0, 1, 2, CurveOrder - 1, CurveOrder, 2^HashBits - 1}

\* the values hash.digest()[:256/8] may take
first_half_of_sha512 == { to_bytes(d, DigestBytes) : d \in DigestSamples }

HASH_TX_SIGN == 1398036480

\* ripemd160(sha256(pubkey)): a collision-free function of the public key
Hash160(pk) == [ripemd160_sha256 |-> pk]

(***************************************************************************)
(* ECDSA (ecdsa.SigningKey.sign_number, ecdsa.util.sigencode_der).         *)
(***************************************************************************)
NonceSamples == {1, 2}

sign_r(k) == PointMul(Generator, k).x % CurveOrder

sign_s(k, d, number) ==
    (inverse_mod(k, CurveOrder)
       * ((number + ((d * sign_r(k)) % CurveOrder)) % CurveOrder)) % CurveOrder

der_encode_integer(v) ==
    LET b == MinimalBytes(v)
    IN  IF b[1] <= 127 THEN << 2, Len(b) >> \o b
        ELSE << 2, Len(b) + 1, 0 >> \o b

sigencode_der(r, s) ==
    LET body == der_encode_integer(r) \o der_encode_integer(s)
    IN  << 48, Len(body) >> \o body

\* ecdsa verification of (r, s) over the number e with public point Q
Verifies(Q, e, r, s) ==
    /\ r \in 1..(CurveOrder - 1)
    /\ s \in 1..(CurveOrder - 1)
    /\ LET c  == inverse_mod(s, CurveOrder)
           u1 == ((e % CurveOrder) * c) % CurveOrder
           u2 == (r * c) % CurveOrder
           R  == PointAdd(PointMul(Generator, u1), PointMul(Q, u2))
       IN  ~R.inf /\ R.x % CurveOrder = r

(***************************************************************************)
(* Inputs.                                                                 *)
(***************************************************************************)
Objects == {1, 2}

TxnFresh ==
    [f \in Fields |-> IF f = "Account" THEN << 114, 65 >> ELSE Absent]

TxnNoAccount == [f \in Fields |-> Absent]

TxnStale ==
    [f \in Fields |->
        IF f = "Account" THEN << 114, 66 >>
        ELSE IF f = "SigningPubKey" THEN << 48, 50 >> ELSE << 51, 48 >>]

TxnSamples == {TxnFresh, TxnNoAccount, TxnStale}

\* "sA" + check, "sA" + wrong check, "rA" + check, the empty string, "s"
SecretSamples ==
    { << 115, 65, CheckChar(<< 115, 65 >>) >>,
      << 115, 65, CheckChar(<< 115, 65 >>) + 1 >>,
      << 114, 65, CheckChar(<< 114, 65 >>) >>,
      << >>,
      << 115 >> }

PointSamples ==
    { PointMul(Generator, k) : k \in {1, 2, 15, 358, CurveOrder - 1} }

PubkeySamples ==
    { ecc_point_to_bytes_compressed(P, TRUE).val : P \in {Generator} }

(***************************************************************************)
(* State.                                                                  *)
(***************************************************************************)
VARIABLES
    pc,         \* position of the running call: "idle", a step name, "done"
    op,         \* the public function that was called
    heap,       \* the caller's transaction objects
    heap0,      \* the transaction objects as they were before the call
    txn,        \* argument: the transaction object (0: none)
    secret,     \* argument: the secret string
    cpoint,     \* argument of a direct call of the point compressor
    cpad,
    seed,       \* signature_for_transaction / get_ripple_from_secret
    seq,        \* root_key_from_seed: first counter
    private_gen,
    public_gen,
    public_gen_compressed,
    i,          \* root_key_from_seed: second counter
    rk_secret,  \* root_key_from_seed: local `secret` inside the second loop
    secexp,     \* root_key_from_seed: local `secret` after line 92
    key,        \* the SigningKey
    serialized, \* create_signing_hash: serialize_object(transaction)
    digest,     \* create_signing_hash: binary
    signing_hash,
    sig_r,      \* ecdsa_sign: r, s
    sig_s,
    sig,        \* sign_transaction: sig
    pubkey,     \* get_ripple_from_pubkey: pubkey
    retval,     \* value returned to the caller
    err,        \* exception that reached the caller ("" when none)
    stdout,     \* what was printed
    sha_in,     \* input of the last SHA-512 call
    events      \* the steps of the call that touch the transaction, in order

vars ==
    << pc, op, heap, heap0, txn, secret, cpoint, cpad, seed, seq, private_gen,
       public_gen, public_gen_compressed, i, rk_secret, secexp, key,
       serialized, digest, signing_hash, sig_r, sig_s, sig, pubkey, retval,
       err, stdout, sha_in, events >>

callVars == << op, txn, secret, cpoint, cpad >>

rootKeyVars ==
    << seq, private_gen, public_gen, public_gen_compressed, i, rk_secret,
       secexp, key >>

signVars == << serialized, digest, signing_hash, sig_r, sig_s, sig >>

NoKey == [valid |-> FALSE, secexp |-> None, pub |-> INFINITY]

NoValue == [kind |-> "none"]

Init ==
    /\ pc = "idle"
    /\ op = ""
    /\ heap \in [Objects -> TxnSamples]
    /\ heap0 = heap
    /\ txn = 0
    /\ secret = NoBytes
    /\ cpoint = INFINITY
    /\ cpad = FALSE
    /\ seed = NoBytes
    /\ seq = None
    /\ private_gen = None
    /\ public_gen = INFINITY
    /\ public_gen_compressed = NoBytes
    /\ i = None
    /\ rk_secret = None
    /\ secexp = None
    /\ key = NoKey
    /\ serialized = NoBytes
    /\ digest = NoBytes
    /\ signing_hash = NoBytes
    /\ sig_r = None
    /\ sig_s = None
    /\ sig = NoBytes
    /\ pubkey = NoBytes
    /\ retval = NoValue
    /\ err = ""
    /\ stdout = << >>
    /\ sha_in = NoBytes
    /\ events = << >>

\* an exception leaves the call and reaches the caller
Throw(e) ==
    /\ pc' = "done"
    /\ err' = e

(***************************************************************************)
(* Calls of the public functions.                                          *)
(***************************************************************************)
CallWithSecret(name, t, s) ==
    /\ pc = "idle"
    /\ op' = name
    /\ txn' = t
    /\ secret' = s
    /\ pc' = "parse_seed"
    /\ UNCHANGED << heap, heap0, cpoint, cpad, seed, rootKeyVars, signVars,
                    pubkey, retval, err, stdout, sha_in, events >>

Call_sign_transaction ==
    \E t \in Objects, s \in SecretSamples :
        CallWithSecret("sign_transaction", t, s)

Call_signature_for_transaction ==
    \E t \in Objects, s \in SecretSamples :
        CallWithSecret("signature_for_transaction", t, s)

Call_get_ripple_from_secret ==
    \E s \in SecretSamples : CallWithSecret("get_ripple_from_secret", 0, s)

Call_get_ripple_from_pubkey ==
    /\ pc = "idle"
    /\ \E pk \in PubkeySamples : pubkey' = pk
    /\ op' = "get_ripple_from_pubkey"
    /\ pc' = "address"
    /\ UNCHANGED << heap, heap0, txn, secret, cpoint, cpad, seed, rootKeyVars,
                    signVars, retval, err, stdout, sha_in, events >>

Call_ecc_point_to_bytes_compressed ==
    /\ pc = "idle"
    /\ \E P \in PointSamples, pad \in BOOLEAN :
         LET c == ecc_point_to_bytes_compressed(P, pad)
         IN  /\ cpoint' = P
             /\ cpad' = pad
             /\ err' = c.err
             /\ retval' = IF c.err = "" THEN [kind |-> "str", val |-> c.val]
                          ELSE NoValue
    /\ op' = "ecc_point_to_bytes_compressed"
    /\ pc' = "done"
    /\ UNCHANGED << heap, heap0, txn, secret, seed, rootKeyVars, signVars,
                    pubkey, stdout, sha_in, events >>

(***************************************************************************)
(* seed = parse_seed(secret), then entry into root_key_from_seed (seq = 0) *)
(***************************************************************************)
ParseSeed ==
    /\ pc = "parse_seed"
    /\ LET r == parse_seed(secret)
       IN  IF r.err # ""
           THEN /\ Throw(r.err)
                /\ UNCHANGED << seed, seq >>
           ELSE /\ seed' = r.val
                /\ seq' = 0
                /\ pc' = "loop1"
                /\ err' = err
    /\ UNCHANGED << callVars, heap, heap0, private_gen, public_gen,
                    public_gen_compressed, i, rk_secret, secexp, key, signVars,
                    pubkey, retval, stdout, sha_in, events >>

(***************************************************************************)
(* root_key_from_seed                                                      *)
(***************************************************************************)
\* if curves.SECP256k1.order >= private_gen: break
loop1_break(candidate) == CurveOrder >= candidate

\* if curves.SECP256k1.order >= secret: break
loop2_break(candidate) == CurveOrder >= candidate

\* one round of the first loop
Loop1Round ==
    /\ pc = "loop1"
    /\ \E h \in first_half_of_sha512 :
         /\ private_gen' = from_bytes(h)
         /\ loop1_break(from_bytes(h)) \/ seq + 1 < MaxRounds
         /\ pc' = IF loop1_break(from_bytes(h)) THEN "public_gen" ELSE "loop1"
    /\ sha_in' = seed \o to_bytes(seq, 4)
    /\ seq' = seq + 1
    /\ events' = Append(events, "sha512")
    /\ UNCHANGED << callVars, heap, heap0, seed, public_gen,
                    public_gen_compressed, i, rk_secret, secexp, key, signVars,
                    pubkey, retval, err, stdout >>

\* public_gen = generator * private_gen; secret = i = 0; compress public_gen
PublicGen ==
    /\ pc = "public_gen"
    /\ public_gen' = PointMul(Generator, private_gen)
    /\ LET c == ecc_point_to_bytes_compressed(public_gen', FALSE)
       IN  IF c.err # ""
           THEN /\ Throw(c.err)
                /\ UNCHANGED public_gen_compressed
           ELSE /\ public_gen_compressed' = c.val
                /\ pc' = "loop2"
                /\ err' = err
    /\ i' = 0
    /\ rk_secret' = 0
    /\ UNCHANGED << callVars, heap, heap0, seed, seq, private_gen, secexp, key,
                    signVars, pubkey, retval, stdout, sha_in, events >>

\* one round of the second loop
Loop2Round ==
    /\ pc = "loop2"
    /\ \E h \in first_half_of_sha512 :
         /\ rk_secret' = from_bytes(h)
         /\ loop2_break(from_bytes(h)) \/ i + 1 < MaxRounds
         /\ pc' = IF loop2_break(from_bytes(h)) THEN "make_key" ELSE "loop2"
    /\ sha_in' = public_gen_compressed \o to_bytes(0, 4) \o to_bytes(i, 4)
    /\ i' = i + 1
    /\ events' = Append(events, "sha512")
    /\ UNCHANGED << callVars, heap, heap0, seed, seq, private_gen, public_gen,
                    public_gen_compressed, secexp, key, signVars, pubkey,
                    retval, err, stdout >>

\* secret = secret + private_gen % curves.SECP256k1.order
final_secret(s, pg) == s + (pg % CurveOrder)

\* SigningKey.from_secret_exponent: assert 1 <= secexp < n
from_secret_exponent(e) ==
    IF 1 <= e /\ e < CurveOrder
    THEN Ok([valid |-> TRUE, secexp |-> e, pub |-> PointMul(Generator, e)])
    ELSE Raise("AssertionError")

\* where the caller of root_key_from_seed goes on
AfterRootKey ==
    IF op = "get_ripple_from_secret" THEN "pubkey_of_key" ELSE "set_pubkey"

MakeKey ==
    /\ pc = "make_key"
    /\ secexp' = final_secret(rk_secret, private_gen)
    /\ LET k == from_secret_exponent(secexp')
       IN  IF k.err # ""
           THEN /\ Throw(k.err)
                /\ UNCHANGED key
           ELSE /\ key' = k.val
                /\ pc' = AfterRootKey
                /\ err' = err
    /\ UNCHANGED << callVars, heap, heap0, seed, seq, private_gen, public_gen,
                    public_gen_compressed, i, rk_secret, signVars, pubkey,
                    retval, stdout, sha_in, events >>

(***************************************************************************)
(* signature_for_transaction                                               *)
(***************************************************************************)
\* variant: the public-key field is not written before the signing hash
SetSigningPubKeyOmitted ==
    /\ pc = "set_pubkey"
    /\ pc' = "signing_hash"
    /\ UNCHANGED << callVars, heap, heap0, seed, rootKeyVars, signVars, pubkey,
                    retval, err, stdout, sha_in, events >>

\* transaction['SigningPubKey'] = fmt_hex(ecc_point_to_bytes_compressed(..))
SetSigningPubKey ==
    /\ pc = "set_pubkey"
    /\ LET c == ecc_point_to_bytes_compressed(key.pub, TRUE)
       IN  IF c.err # ""
           THEN /\ Throw(c.err)
                /\ UNCHANGED << heap, events >>
           ELSE /\ heap' = [heap EXCEPT ![txn]["SigningPubKey"] = fmt_hex(c.val)]
                /\ events' = Append(events, "SigningPubKey")
                /\ pc' = "signing_hash"
                /\ err' = err
    /\ UNCHANGED << callVars, heap0, seed, rootKeyVars, signVars, pubkey,
                    retval, stdout, sha_in >>

\* variant: a failed serialization puts the old public-key field back
CreateSigningHashRestoring ==
    /\ pc = "signing_hash"
    /\ events' = Append(events, "serialize_object")
    /\ IF SerializeFails(heap[txn])
       THEN /\ Throw("SerializeError")
            /\ heap' = [heap EXCEPT ![txn]["SigningPubKey"] =
                                        heap0[txn]["SigningPubKey"]]
            /\ UNCHANGED << serialized, digest, signing_hash, sha_in >>
       ELSE /\ serialized' = serialize_object(heap[txn])
            /\ sha_in' = to_bytes(HASH_TX_SIGN, 4) \o serialized'
            /\ \E h \in first_half_of_sha512 :
                 /\ digest' = h
                 /\ signing_hash' = fmt_hex(h)
            /\ pc' = "ecdsa_sign"
            /\ err' = err
            /\ heap' = heap
    /\ UNCHANGED << callVars, heap0, seed, rootKeyVars, sig_r, sig_s,
                    sig, pubkey, retval, stdout >>

\* signing_hash = create_signing_hash(transaction)
CreateSigningHash ==
    /\ pc = "signing_hash"
    /\ events' = Append(events, "serialize_object")
    /\ IF SerializeFails(heap[txn])
       THEN /\ Throw("SerializeError")
            /\ UNCHANGED << serialized, digest, signing_hash, sha_in >>
       ELSE /\ serialized' = serialize_object(heap[txn])
            /\ sha_in' = to_bytes(HASH_TX_SIGN, 4) \o serialized'
            /\ \E h \in first_half_of_sha512 :
                 /\ digest' = h
                 /\ signing_hash' = fmt_hex(h)
            /\ pc' = "ecdsa_sign"
            /\ err' = err
    /\ UNCHANGED << callVars, heap, heap0, seed, rootKeyVars, sig_r, sig_s,
                    sig, pubkey, retval, stdout >>

\* variant: signature_for_transaction drops a signature field it finds
EcdsaSignClearingSignature ==
    /\ pc = "ecdsa_sign"
    /\ events' = Append(events, "sign_number")
    /\ heap' = [heap EXCEPT ![txn]["TxnSignature"] = Absent]
    /\ \E k \in NonceSamples :
         /\ sig_r' = sign_r(k)
         /\ sig_s' = sign_s(k, key.secexp, from_bytes(signing_hash))
         /\ sig' = fmt_hex(sigencode_der(sig_r', sig_s'))
         /\ err' = err
         /\ IF op = "signature_for_transaction"
            THEN /\ retval' = [kind |-> "str", val |-> sig']
                 /\ pc' = "done"
            ELSE /\ retval' = retval
                 /\ pc' = "set_signature"
    /\ UNCHANGED << callVars, heap0, seed, rootKeyVars, serialized,
                    digest, signing_hash, pubkey, stdout, sha_in >>

\* fmt_hex(ecdsa_sign(key, signing_hash)); the caller of
\* signature_for_transaction gets the string
EcdsaSign ==
    /\ pc = "ecdsa_sign"
    /\ events' = Append(events, "sign_number")
    /\ \E k \in NonceSamples :
         LET number == from_bytes(signing_hash)
             r == sign_r(k)
             s == sign_s(k, key.secexp, number)
         IN  IF r = 0 \/ s = 0
             THEN /\ Throw("RuntimeError")
                  /\ UNCHANGED << sig_r, sig_s, sig, retval >>
             ELSE /\ sig_r' = r
                  /\ sig_s' = s
                  /\ sig' = fmt_hex(sigencode_der(r, s))
                  /\ err' = err
                  /\ IF op = "signature_for_transaction"
                     THEN /\ retval' = [kind |-> "str", val |-> sig']
                          /\ pc' = "done"
                     ELSE /\ retval' = retval
                          /\ pc' = "set_signature"
    /\ UNCHANGED << callVars, heap, heap0, seed, rootKeyVars, serialized,
                    digest, signing_hash, pubkey, stdout, sha_in >>

(***************************************************************************)
(* sign_transaction                                                        *)
(***************************************************************************)
\* transaction['TxnSignature'] = sig; return transaction
SetTxnSignature ==
    /\ pc = "set_signature"
    /\ heap' = [heap EXCEPT ![txn]["TxnSignature"] = sig]
    /\ events' = Append(events, "TxnSignature")
    /\ retval' = [kind |-> "txn", ref |-> txn]
    /\ pc' = "done"
    /\ UNCHANGED << callVars, heap0, seed, rootKeyVars, signVars, pubkey, err,
                    stdout, sha_in >>

(***************************************************************************)
(* get_ripple_from_secret, get_ripple_from_pubkey                          *)
(***************************************************************************)
\* variant: the public point is compressed without padding
PubkeyOfKeyUnpadded ==
    /\ pc = "pubkey_of_key"
    /\ pubkey' = ecc_point_to_bytes_compressed(key.pub, FALSE).val
    /\ pc' = "address"
    /\ UNCHANGED << callVars, heap, heap0, seed, rootKeyVars, signVars, retval,
                    err, stdout, sha_in, events >>

\* pubkey = ecc_point_to_bytes_compressed(key.privkey.public_key.point, pad=True)
PubkeyOfKey ==
    /\ pc = "pubkey_of_key"
    /\ LET c == ecc_point_to_bytes_compressed(key.pub, TRUE)
       IN  IF c.err # ""
           THEN /\ Throw(c.err)
                /\ UNCHANGED pubkey
           ELSE /\ pubkey' = c.val
                /\ pc' = "address"
                /\ err' = err
    /\ UNCHANGED << callVars, heap, heap0, seed, rootKeyVars, signVars, retval,
                    stdout, sha_in, events >>

\* RippleBaseDecoder.encode(ripemd160.digest())
RippleBaseDecoder_encode(h) == [base58check |-> h]

get_ripple_from_pubkey(pk) == RippleBaseDecoder_encode(Hash160(pk))

\* print(ripemd160.digest().encode('hex').upper()); return the address
GetRippleFromPubkey ==
    /\ pc = "address"
    /\ stdout' = Append(stdout, [hex_upper |-> Hash160(pubkey)])
    /\ retval' = [kind |-> "addr", val |-> get_ripple_from_pubkey(pubkey)]
    /\ pc' = "done"
    /\ UNCHANGED << callVars, heap, heap0, seed, rootKeyVars, signVars, pubkey,
                    err, sha_in, events >>

Next ==
    \/ Call_sign_transaction
    \/ Call_signature_for_transaction
    \/ Call_get_ripple_from_secret
    \/ Call_get_ripple_from_pubkey
    \/ Call_ecc_point_to_bytes_compressed
    \/ ParseSeed
    \/ Loop1Round
    \/ PublicGen
    \/ Loop2Round
    \/ MakeKey
    \/ SetSigningPubKey
    \/ CreateSigningHash
    \/ EcdsaSign
    \/ SetTxnSignature
    \/ PubkeyOfKey
    \/ GetRippleFromPubkey

Spec == Init /\ [][Next]_vars

TypeOK ==
    /\ pc \in {"idle", "parse_seed", "loop1", "public_gen", "loop2", "make_key",
               "set_pubkey", "signing_hash", "ecdsa_sign", "set_signature",
               "pubkey_of_key", "address", "done"}
    /\ txn \in Objects \cup {0}
    /\ heap \in [Objects -> [Fields -> Seq(0..255)]]
(***************************************************************************)
(* Properties.                                                             *)
(***************************************************************************)
SigningOps == {"sign_transaction", "signature_for_transaction"}

SecretOps == SigningOps \cup {"get_ripple_from_secret"}

Returned == pc = "done" /\ err = ""

\* the hex string the call writes into the public-key field
DerivedPubKeyHex == fmt_hex(ecc_point_to_bytes_compressed(key.pub, TRUE).val)

\* bytes of a coordinate of the curve (32 for a 256-bit field)
FieldBytes == (bit_length(CurveP - 1) + 7) \div 8

Occurs(e) == \E j \in 1..Len(events) : events[j] = e

\* the secret strings of the Malformed Seed error
Malformed(str) ==
    Len(str) = 0 \/ str[1] # 115 \/ DecoderRejects(str)

\* C1: the scalar handed to the key-pair constructor is
\* (secret_candidate + private_generator) mod curve_order, hence below the order
C1_ScalarIsReducedSum ==
    secexp # None =>
        /\ secexp = (rk_secret + private_gen) % CurveOrder
        /\ secexp < CurveOrder

\* C2: a loop of root_key_from_seed only stops on a candidate strictly below
\* the curve order, after one counter step per round
C2_AcceptedBelowOrder ==
    /\ (pc \in {"public_gen", "loop2", "make_key"} \/ public_gen_compressed # NoBytes)
          => (private_gen < CurveOrder /\ seq \in 1..MaxRounds)
    /\ (pc = "make_key" \/ secexp # None)
          => (rk_secret < CurveOrder /\ i \in 1..MaxRounds)

\* C3: the returned signature is the DER form of (r, s), made after the
\* public-key field was assigned, and verifies against the public key of that
\* field over the 32-byte digest read as a big-endian integer
C3_SignatureVerifiesOverDigest ==
    (Returned /\ op = "signature_for_transaction") =>
        /\ retval = [kind |-> "str", val |-> fmt_hex(sigencode_der(sig_r, sig_s))]
        /\ heap[txn]["SigningPubKey"] = DerivedPubKeyHex
        /\ serialized = serialize_object(heap[txn])
        /\ Verifies(key.pub, from_bytes(digest), sig_r, sig_s)

\* what the code signs: the integer of the hex text of the digest
SignatureVerifiesOverHexText ==
    (Returned /\ op = "signature_for_transaction") =>
        /\ retval = [kind |-> "str", val |-> fmt_hex(sigencode_der(sig_r, sig_s))]
        /\ heap[txn]["SigningPubKey"] = DerivedPubKeyHex
        /\ serialized = serialize_object(heap[txn])
        /\ Verifies(key.pub, from_bytes(signing_hash), sig_r, sig_s)

\* C4: the public-key field is written before the serializer runs and before
\* the signing hash exists, the serializer sees the transaction with the
\* public key of this call in it, and the signature field is written only
\* after the signature was computed
C4_PubKeyBeforeHashBeforeSignature ==
    /\ \A j \in 1..Len(events) :
         /\ events[j] = "serialize_object"
               => \E k \in 1..(j - 1) : events[k] = "SigningPubKey"
         /\ events[j] = "TxnSignature"
               => \E k \in 1..(j - 1) : events[k] = "sign_number"
         /\ events[j] = "sign_number"
               => \E k \in 1..(j - 1) : events[k] = "serialize_object"
    /\ signing_hash # NoBytes =>
         /\ serialized =
              serialize_object([heap0[txn] EXCEPT !["SigningPubKey"] = DerivedPubKeyHex])
         /\ heap[txn]["SigningPubKey"] = DerivedPubKeyHex
    /\ (op \in SigningOps /\ heap[txn]["TxnSignature"] # heap0[txn]["TxnSignature"])
         => (sig # NoBytes /\ heap[txn]["TxnSignature"] = sig)

C4_Witness ==
    /\ Returned
    /\ op = "sign_transaction"
    /\ events[Len(events)] = "TxnSignature"
    /\ Occurs("serialize_object")
    /\ heap0[txn]["SigningPubKey"] # heap[txn]["SigningPubKey"]

\* C5: signature_for_transaction changes the public-key field of its
\* transaction and nothing else; sign_transaction changes the signature field
\* as well, and returns the transaction object it was given
C5_OnlyTwoFieldsWritten ==
    /\ \A o \in Objects, f \in Fields :
         heap[o][f] # heap0[o][f] =>
            /\ o = txn
            /\ op \in SigningOps
            /\ f = "SigningPubKey" \/ (f = "TxnSignature" /\ op = "sign_transaction")
    /\ (Returned /\ op = "sign_transaction") =>
         /\ retval = [kind |-> "txn", ref |-> txn]
         /\ heap[txn] = [heap0[txn] EXCEPT !["SigningPubKey"] = DerivedPubKeyHex,
                                          !["TxnSignature"] = sig]
    /\ (Returned /\ op = "signature_for_transaction") =>
         /\ retval = [kind |-> "str", val |-> sig]
         /\ heap[txn] = [heap0[txn] EXCEPT !["SigningPubKey"] = DerivedPubKeyHex]

C5_Witness ==
    /\ Returned
    /\ op = "signature_for_transaction"
    /\ heap0[txn]["TxnSignature"] # Absent
    /\ heap[txn]["TxnSignature"] = heap0[txn]["TxnSignature"]
    /\ heap[txn]["SigningPubKey"] # heap0[txn]["SigningPubKey"]

\* C6: with a malformed secret the call fails before any step of the root-key
\* derivation: no hash round, no generator, no scalar, no key
C6_MalformedSeedFailsFirst ==
    (op \in SecretOps /\ Malformed(secret)) =>
        /\ pc \in {"parse_seed", "done"}
        /\ pc = "done" => (err # "" /\ retval = NoValue)
        /\ seed = NoBytes
        /\ seq = None
        /\ private_gen = None
        /\ public_gen = INFINITY
        /\ i = None
        /\ rk_secret = None
        /\ secexp = None
        /\ ~key.valid
        /\ sha_in = NoBytes
        /\ events = << >>
        /\ heap = heap0

C6_Witness ==
    /\ pc = "done"
    /\ op = "sign_transaction"
    /\ Len(secret) > 0
    /\ secret[1] # 115
    /\ ~DecoderRejects(secret)
    /\ err = "AssertionError"

\* C7: with pad=True the compressed form of a curve point is one header byte
\* (2 for even y, 3 for odd y) and x at the fixed width of a coordinate, and
\* the call never raises
C7_PaddedCompressionFixedWidth ==
    /\ (pc = "done" /\ op = "ecc_point_to_bytes_compressed" /\ cpad) =>
         /\ err = ""
         /\ retval.kind = "str"
         /\ Len(retval.val) = 1 + FieldBytes
         /\ retval.val[1] = (IF cpoint.y % 2 = 0 THEN 2 ELSE 3)
         /\ from_bytes(Tail(retval.val)) = cpoint.x
    /\ (op \in SigningOps /\ Occurs("SigningPubKey")) =>
         Len(heap[txn]["SigningPubKey"]) = 2 * (1 + FieldBytes)

C7_Witness ==
    /\ pc = "done"
    /\ op = "ecc_point_to_bytes_compressed"
    /\ cpad
    /\ OnCurve(cpoint)
    /\ cpoint.x < 256
    /\ retval.val = << 2, 0, cpoint.x >>

\* C8: the address of get_ripple_from_secret is the address that
\* get_ripple_from_pubkey gives for the padded compressed public point of the
\* root key of the seed
C8_AddressFromSecretIsAddressOfPubkey ==
    (Returned /\ op = "get_ripple_from_secret") =>
        /\ key = from_secret_exponent(secexp).val
        /\ retval = [kind |-> "addr",
                     val |-> get_ripple_from_pubkey(
                               << IF key.pub.y % 2 = 0 THEN 2 ELSE 3 >>
                               \o to_bytes(key.pub.x, FieldBytes))]

C8_Witness ==
    /\ Returned
    /\ op = "get_ripple_from_secret"
    /\ key.pub.x < 256
    /\ retval.kind = "addr"

\* C9: no operation has a side effect besides the two field writes; nothing
\* is written to an output stream
C9_NoOutputNoOtherEffect ==
    /\ stdout = << >>
    /\ \A o \in Objects, f \in Fields :
         heap[o][f] # heap0[o][f] =>
            (o = txn /\ f \in {"SigningPubKey", "TxnSignature"})

\* C10: when the serializer raises inside sign_transaction the error reaches
\* the caller, nothing is signed, the signature field is not written, and the
\* public-key field stays overwritten with the derived key
C10_SerializerErrorLeavesPubKey ==
    (op = "sign_transaction" /\ Occurs("serialize_object")
       /\ SerializeFails(heap[txn])) =>
        /\ pc = "done"
        /\ err = "SerializeError"
        /\ retval = NoValue
        /\ sig = NoBytes
        /\ ~Occurs("sign_number")
        /\ heap[txn]["TxnSignature"] = heap0[txn]["TxnSignature"]
        /\ heap[txn]["SigningPubKey"] = DerivedPubKeyHex

C10_Witness ==
    /\ pc = "done"
    /\ op = "sign_transaction"
    /\ err = "SerializeError"
    /\ heap[txn]["SigningPubKey"] # heap0[txn]["SigningPubKey"]
    /\ heap[txn]["TxnSignature"] = Absent
=============================================================================
